---------------------------- MODULE Spec2Model ----------------------------
(***************************************************************************)
(* Market-data acquisition and caching layer of the investment-agent       *)
(* backend: FastDataLoader.fetch_prices_fast (strategy/fast_data_loader.py)*)
(* with its retry decorator, and YahooFinanceFetcher.fetch_ticker_history  *)
(* (data_gatherer/yahoo_finance.py).                                       *)
(*                                                                         *)
(* Specifications (each leaves the variables of the others unchanged):     *)
(*   Spec         - fetch cycles of fetch_prices_fast against the two      *)
(*                  parquet cache files and the two price providers;       *)
(*   SpecRetry    - single provider calls under retry_api_call.wrapper and *)
(*                  under the retry loop of fetch_ticker_history;          *)
(*   SpecValidate - one provider row through fetch_ticker_history's row    *)
(*                  building and _validate_price_data;                     *)
(*   SpecRate     - _rate_limit and the attempts of fetch_ticker_history   *)
(*                  under the worker threads of fetch_multiple;            *)
(*   SpecSave     - two processes running fetch cycles on one cache        *)
(*                  directory;                                             *)
(*   SpecTrade    - two clients generating trade ids and creating trades   *)
(*                  (TradeService, TradeRepository, routers/trades.py);    *)
(*   SpecTradeEdit- get, PATCH, close and delete requests on the trades    *)
(*                  one client created;                                    *)
(*   SpecMulti    - one fetch_multiple call and its worker futures;        *)
(*   SpecGather   - the data gatherer's per-ticker fetch and counting      *)
(*                  (fetch_incremental, fetch_all_historical, update_daily)*)
(*   SpecScan     - overlapping background scans of routers/scanner.py     *)
(*                  and GET /status.                                       *)
(***************************************************************************)
EXTENDS Integers, Sequences, FiniteSets, TLC

(* ------------------------------ bounds --------------------------------- *)
\* last calendar day the clock reaches (days are 1..MaxDay)
MaxDay == 3
\* fetch_prices_fast calls made in one behaviour
MaxCycles == 2
\* clock ticks per calendar day: tick 0 of a day is exactly midnight
TicksPerDay == 2
\* largest max_retries a retry run is started with
MaxRetriesBound == 4
\* largest base delay / RETRY_DELAY a retry run is started with
MaxBaseDelay == 3
\* largest max_delay a retry run is started with
MaxDelayBound == 8
\* largest price and largest volume of a provider row put to the validation
MaxPrice == 3
MaxVolume == 1
\* last value of the clock of the rate limiter, in half seconds
MaxClock == 7
\* fetch_ticker_history calls submitted to one fetcher in one behaviour
MaxSubmits == 3
\* fetch cycles the two concurrent processes start in one behaviour
MaxSaveCycles == 3
\* trades ever inserted into the trades table in one behaviour
MaxTrades == 2
\* largest exit price of a close or PATCH request
MaxExitPrice == 2
\* last day a close request can name as its exit date
MaxExitDay == 1
\* most rows a provider frame carries
MaxRows == 2
\* tickers one run of the data gatherer processes
MaxGather == 3
\* scans started through POST /api/scanner/run in one behaviour
MaxScans == 3

(* ------------------------------ universe ------------------------------- *)
Tickers == {"A", "B"}
\* ticker lists of the callers; a list can name a ticker twice
Requests == {<<"A">>, <<"B">>, <<"A", "B">>, <<"A", "A">>}
Dates == 1..MaxDay

\* pandas NaN (prices are positive, so 0 is free to stand for it)
NaN == 0

VARIABLES
  (* the clock and the durable cache files *)
  now,            \* wall clock in ticks; datetime.now()
  disk,           \* [close, open]: each [exists, df] - the two parquet files
  (* one FastDataLoader and its running fetch_prices_fast call *)
  pc,             \* position of the call: idle, planned, full, fallback, merge
  tickers,        \* argument tickers
  use_cache,      \* argument use_cache
  client,         \* self.client is not None
  use_tiingo_fallback, \* self.use_tiingo_fallback
  end_date,       \* self.end_date (day of construction)
  cached_close, cached_open,
  tickers_to_fetch_full, tickers_to_fetch_delta,
  delta_close, delta_open,
  new_close, new_open,
  final_close, final_open,
  ret,            \* [kind, close, open]: how and what the last call returned
  (* observation of the provider calls of the running call *)
  tiingo_calls,   \* sequence of ticker lists sent to the primary provider
  tiingo_cols,    \* tickers whose adjClose the primary response carried
  tiingo_failed,  \* the call to the primary raised after all retries
  yf_calls,       \* sequence of [mode, tickers, start, end] sent to the secondary
  failed,         \* tickers whose provider call raised after all retries
  read_outcome,   \* how the read of the cache files went (ReadOutcomes)
  write_outcome,  \* how the write of the cache files went (WriteOutcomes)
  (* history *)
  pre,            \* disk as it was when the running call started
  prev,           \* [ok, close, open]: the call before, when this one repeats it
  cycles,         \* fetch_prices_fast calls started so far
  (* retry runs (SpecRetry) *)
  rpc,            \* idle, call, sleep, done
  rkind,          \* "decorator" (retry_api_call) or "history" (fetch_ticker_history)
  max_retries, base_delay, max_delay,
  attempt,        \* loop variable attempt
  attempts,       \* provider attempts made
  sleeps,         \* sequence of sleep durations
  outcome,        \* none, value, raised, failed_tuple
  errors,         \* sequence of error kinds the provider raised
  returned,       \* (success, prices, error) fetch_ticker_history returned
  (* one row of fetch_ticker_history (SpecValidate) *)
  vpc,            \* idle, built, done
  vrow,           \* the provider's row: Open, High, Low, Close, Volume
  vdata,          \* price_data as built from it
  vverdict,       \* none, accepted (appended to prices), skipped, raised
  (* one YahooFinanceFetcher under fetch_multiple's worker threads (SpecRate) *)
  clk,            \* time.time(), in half seconds
  last_request_time, \* self.last_request_time: ticker -> time, or NotSeen
  wpc,            \* per worker: idle, limit, sleep, stamp, call, backoff, done
  wtk,            \* per worker: the ticker of its fetch_ticker_history call
  wwake,          \* per worker: the time its time.sleep ends
  wattempt,       \* per worker: loop variable attempt
  calls,          \* sequence of [ticker, at]: the provider calls started
  submitted,      \* fetch_ticker_history calls submitted so far
  (* two processes saving into one cache directory (SpecSave) *)
  sdisk,          \* [close, open]: the two parquet files of the directory
  spc,            \* per process: idle, merged, close_saved, done
  sfinal,         \* per process: [close, open], its final_close / final_open
  slast,          \* the process whose save completed last (0: none yet)
  scycles,        \* fetch cycles started so far
  (* the trades table behind TradeService / TradeRepository (SpecTrade) *)
  tbl,            \* primary key -> row of the trades table (NoTrade: no row)
  next_pk,        \* the next autoincrement primary key
  cpc,            \* per client: idle, generated, checked (inside create_trade)
  cid,            \* per client: the trade_id it was given and posts
  response,       \* the last response: [op, code, tid]
  (* one fetch_multiple call (SpecMulti) *)
  mpc,            \* idle, running (inside the with block), returned
  future_to_ticker, \* the tickers of the submitted tasks, in submit order
  futures,        \* per task: [state, raised, val] - pending, or how it ended
  results,        \* ticker -> (success, prices, error), or NoOutcome
  completed,      \* loop counter completed
  (* one run of the data gatherer: fetch_all_historical / update_daily
     (SpecGather) *)
  gpc,            \* idle (between tickers), fetched (before the counting)
  gmode,          \* historical or daily
  gcall,          \* [ticker, last_date, today, start_date, end_date] of the fetch
  gframe,         \* [kind, rows, rejected]: what the provider answered
  gresult,        \* (success, prices, error) as fetch_ticker_history returned it
  gcounted,       \* how the last ticker was counted: none, succeeded, failed
  succeeded, failed_count, total_records,
  (* the scanner router and its background scan tasks (SpecScan) *)
  scan_status,    \* global _scan_status: idle, running, completed, failed
  scan_results,   \* global _scan_results: NoResults, or the scan they are of
  scan_pc,        \* per scan task: unstarted, logic, open, write, completed, failed
  scan_dump,      \* per scan task: the results it serialises into the file
  scan_file,      \* dashboard/scan_results.json: NoResults, or the scan stored
  scan_answer     \* the last answer of GET /status

lvars == <<now, disk, pc, tickers, use_cache, client, use_tiingo_fallback,
           end_date, cached_close, cached_open, tickers_to_fetch_full,
           tickers_to_fetch_delta, delta_close, delta_open, new_close,
           new_open, final_close, final_open, ret, tiingo_calls, tiingo_cols, tiingo_failed,
           yf_calls, failed, read_outcome, write_outcome, pre, prev, cycles>>
rvars == <<rpc, rkind, max_retries, base_delay, max_delay, attempt, attempts,
           sleeps, outcome, errors, returned>>
vvars == <<vpc, vrow, vdata, vverdict>>
svars == <<sdisk, spc, sfinal, slast, scycles>>
tvars == <<tbl, next_pk, cpc, cid, response>>
mvars == <<mpc, future_to_ticker, futures, results, completed>>
gvars == <<gpc, gmode, gcall, gframe, gresult, gcounted, succeeded,
           failed_count, total_records>>
qvars == <<clk, last_request_time, wpc, wtk, wwake, wattempt, calls, submitted>>
\* everything but the variables of one specification
cvars == <<scan_status, scan_results, scan_pc, scan_dump, scan_file, scan_answer>>

restOfLoader == <<rvars, vvars, qvars, svars, tvars, mvars, gvars, cvars>>
restOfRetry == <<lvars, vvars, qvars, svars, tvars, mvars, gvars, cvars>>
restOfValidate == <<lvars, rvars, qvars, svars, tvars, mvars, gvars, cvars>>
restOfRate == <<lvars, rvars, vvars, svars, tvars, mvars, gvars, cvars>>
restOfSave == <<lvars, rvars, vvars, qvars, tvars, mvars, gvars, cvars>>
restOfTrade == <<lvars, rvars, vvars, qvars, svars, mvars, gvars, cvars>>
restOfMulti == <<lvars, rvars, vvars, qvars, svars, tvars, gvars, cvars>>
restOfGather == <<lvars, rvars, vvars, qvars, svars, tvars, mvars, cvars>>
restOfScan == <<lvars, rvars, vvars, qvars, svars, tvars, mvars, gvars>>
vars == <<lvars, rvars, vvars, qvars, svars, tvars, mvars, gvars, cvars>>

(* --------------------------- PriceTable -------------------------------- *)
\* A DataFrame: ticker columns, a date index, one nullable value per cell.
\* Cells outside cols x idx are kept NaN so that equal frames are equal values.
MkDF(cols, idx, F(_, _)) ==
  [cols |-> cols, idx |-> idx,
   val |-> [t \in Tickers |-> [d \in Dates |->
              IF t \in cols /\ d \in idx THEN F(t, d) ELSE NaN]]]

ConstNaN(t, d) == NaN

\* pd.DataFrame()
EmptyDF == MkDF({}, {}, ConstNaN)

\* DataFrame.empty: any axis of length 0
IsEmpty(df) == df.cols = {} \/ df.idx = {}

\* Series.dropna().index of column t
NonNullDates(df, t) == {d \in df.idx : df.val[t][d] # NaN}

SetMax(S) == CHOOSE x \in S : \A y \in S : y <= x

Range(s) == {s[i] : i \in 1..Len(s)}

\* df[list_of_tickers]
Select(df, cols) == MkDF(cols, df.idx, LAMBDA t, d : df.val[t][d])

\* df[t] = series: the first column of an index-less frame brings its index,
\* every later one is reindexed to the frame's index
SetColumn(df, t, ser) ==
  LET idx == IF df.idx = {} THEN ser.idx ELSE df.idx
  IN MkDF(df.cols \cup {t}, idx,
          LAMBDA u, d : IF u = t
                        THEN (IF d \in ser.idx THEN ser.val[d] ELSE NaN)
                        ELSE df.val[u][d])

\* mutant of CombineFirst: b's value wins where b is non-null
CombineFirstOther(a, b) ==
  MkDF(a.cols \cup b.cols, a.idx \cup b.idx,
       LAMBDA t, d : IF b.val[t][d] # NaN THEN b.val[t][d] ELSE a.val[t][d])

\* a.combine_first(b): union of index and columns; a's value where a is
\* non-null, else b's
CombineFirst(a, b) ==
  MkDF(a.cols \cup b.cols, a.idx \cup b.idx,
       LAMBDA t, d : IF a.val[t][d] # NaN THEN a.val[t][d] ELSE b.val[t][d])

\* pd.concat([a, b], axis=1) followed by .loc[:, ~columns.duplicated()]:
\* outer join of the index, and of two columns of one ticker the first stays
ConcatDedup(a, b) ==
  MkDF(a.cols \cup b.cols, a.idx \cup b.idx,
       LAMBDA t, d : IF t \in a.cols THEN a.val[t][d] ELSE b.val[t][d])

\* a.join(b, how='outer') for frames without a common column
JoinOuter(a, b) ==
  MkDF(a.cols \cup b.cols, a.idx \cup b.idx,
       LAMBDA t, d : IF t \in a.cols THEN a.val[t][d] ELSE b.val[t][d])

(* ------------------------------ clock ---------------------------------- *)
\* datetime.now().strftime('%Y-%m-%d'): the calendar day of a clock value
DayOf(t) == t \div TicksPerDay
\* the pandas Timestamp of a date of the index (midnight of that day)
Timestamp(d) == d * TicksPerDay
MaxNow == MaxDay * TicksPerDay + (TicksPerDay - 1)

(* ----------------------------- providers ------------------------------- *)
\* What the providers quote for (ticker, date) when asked on day `today`:
\* adjusted prices are restated as days pass, so a later call gives another
\* value for the same date.
TickerBase(t) == IF t = "A" THEN 100 ELSE 200
AdjClose(t, d, today) == TickerBase(t) + 10 * d + (today - d)
AdjOpen(t, d, today) == AdjClose(t, d, today) + 5

\* yf.download(tickers=t, start, end): rows of start <= date < end
YfDates(start, end) == {d \in Dates : start <= d /\ d < end}
\* client.get_dataframe(startDate, endDate): rows of start <= date <= end
TiingoDates(start, end) == {d \in Dates : start <= d /\ d <= end}

\* self.start_date
StartDate == 1

(* ------------------------ fetch_prices_fast ---------------------------- *)
NoFile == [exists |-> FALSE, df |-> EmptyDF]
NoRet == [kind |-> "none", at |-> 0, close |-> EmptyDF, open |-> EmptyDF,
          ccols |-> <<>>, ocols |-> <<>>]
NoPrev == [ok |-> FALSE, close |-> EmptyDF, open |-> EmptyDF]
NoDelta == [t \in {} |-> 0]

\* mutant of CacheRead: the files are read whatever use_cache says
CacheReadAlways(uc) == disk.close.exists /\ disk.open.exists

\* line 129: the files are read
CacheRead(uc) == uc /\ disk.close.exists /\ disk.open.exists

\* the loaders the callers construct: with or without an API token, and with
\* a token also with use_tiingo_fallback=False
Configs == {[client |-> TRUE, fallback |-> TRUE],
            [client |-> TRUE, fallback |-> FALSE],
            [client |-> FALSE, fallback |-> TRUE]}

\* lines 125-136: both files must exist; the close file is read first, and a
\* read that raises leaves what was not yet assigned as pd.DataFrame()
ReadOutcomes == {"ok", "close_raises", "open_raises"}
LoadClose(uc, rd) ==
  IF CacheRead(uc) /\ rd # "close_raises"
  THEN disk.close.df ELSE EmptyDF
\* mutant of LoadOpen: the open table is taken although a read raised
LoadOpenAnyway(uc, rd) ==
  IF CacheRead(uc) THEN disk.open.df ELSE EmptyDF

LoadOpen(uc, rd) ==
  IF CacheRead(uc) /\ rd = "ok"
  THEN disk.open.df ELSE EmptyDF

\* line 144
InBoth(cc, co, t) == t \in cc.cols /\ t \in co.cols

\* line 152: last_cached_date < today, where today = datetime.now()
NeedsDelta(last, clock) == Timestamp(last) < clock

\* lines 142-162: tickers_to_fetch_full
PlanFull(tk, cc, co) ==
  IF ~IsEmpty(cc) /\ ~IsEmpty(co)
  THEN SelectSeq(tk, LAMBDA t : ~InBoth(cc, co, t) \/ NonNullDates(cc, t) = {})
  ELSE tk

\* lines 142-162: tickers_to_fetch_delta, ticker -> last cached date
PlanDelta(tk, cc, co, clock) ==
  IF ~IsEmpty(cc) /\ ~IsEmpty(co)
  THEN LET dom == {t \in Range(tk) :
                     /\ InBoth(cc, co, t)
                     /\ NonNullDates(cc, t) # {}
                     /\ NeedsDelta(SetMax(NonNullDates(cc, t)), clock)}
       IN [t \in dom |-> SetMax(NonNullDates(cc, t))]
  ELSE NoDelta

\* the call before this one, kept when this call repeats it at the same
\* clock value with use_cache on both
PrevOf(tk, uc) ==
  IF /\ ret.kind \in {"uptodate", "merged", "cacheonly"}
     /\ tk = tickers /\ uc /\ use_cache /\ ret.at = now
  THEN [ok |-> TRUE, close |-> ret.close, open |-> ret.open]
  ELSE NoPrev

\* lines 73-95 (construction) and 118-162 (load, plan)
Start(tk, uc, cl, fb, rd) ==
  /\ pc = "idle"
  /\ cycles < MaxCycles
  /\ cycles' = cycles + 1
  /\ tickers' = tk
  /\ use_cache' = uc
  /\ client' = cl
  /\ use_tiingo_fallback' = fb
  /\ end_date' = DayOf(now)
  /\ cached_close' = LoadClose(uc, rd)
  /\ cached_open' = LoadOpen(uc, rd)
  /\ tickers_to_fetch_full' = PlanFull(tk, LoadClose(uc, rd), LoadOpen(uc, rd))
  /\ tickers_to_fetch_delta' =
       PlanDelta(tk, LoadClose(uc, rd), LoadOpen(uc, rd), now)
  /\ delta_close' = EmptyDF /\ delta_open' = EmptyDF
  /\ new_close' = EmptyDF /\ new_open' = EmptyDF
  /\ final_close' = EmptyDF /\ final_open' = EmptyDF
  /\ tiingo_calls' = <<>> /\ tiingo_cols' = {} /\ yf_calls' = <<>>
  /\ tiingo_failed' = FALSE
  /\ failed' = {}
  /\ read_outcome' = rd
  /\ write_outcome' = "none"
  /\ pre' = disk
  /\ prev' = PrevOf(tk, uc)
  /\ ret' = NoRet
  /\ pc' = "planned"
  /\ UNCHANGED <<now, disk>>

NothingToFetch ==
  tickers_to_fetch_full = <<>> /\ DOMAIN tickers_to_fetch_delta = {}

\* lines 164-170
EarlyReturn ==
  /\ pc = "planned"
  /\ NothingToFetch
  /\ ret' = [kind |-> "uptodate", at |-> now,
             close |-> Select(cached_close, Range(tickers)),
             open |-> Select(cached_open, Range(tickers)),
             ccols |-> tickers, ocols |-> tickers]
  /\ pc' = "idle"
  /\ UNCHANGED <<now, disk, tickers, use_cache, client, use_tiingo_fallback,
                 end_date, cached_close, cached_open, tickers_to_fetch_full,
                 tickers_to_fetch_delta, delta_close, delta_open, new_close,
                 new_open, final_close, final_open, tiingo_calls, tiingo_cols, tiingo_failed,
                 yf_calls, failed, read_outcome,
                 write_outcome, pre, prev, cycles>>

\* the 'Close' / 'Open' series of one yf.download frame
CloseSeries(t, dates, today) ==
  [idx |-> dates, val |-> [d \in Dates |->
     IF d \in dates THEN AdjClose(t, d, today) ELSE NaN]]
OpenSeries(t, dates, today) ==
  [idx |-> dates, val |-> [d \in Dates |->
     IF d \in dates THEN AdjOpen(t, d, today) ELSE NaN]]

\* a price no sanity validation would pass (a close that is not positive)
BadPrice == -1
\* the 'Close' series of a yf.download frame whose rows carry such a close
InvalidSeries(dates) ==
  [idx |-> dates, val |-> [d \in Dates |->
     IF d \in dates THEN BadPrice ELSE NaN]]

\* what one delta call can do: raise after all retries, or answer with the
\* rows of [start, end), with or without an 'Open' column, or with rows whose
\* close is not a valid price
DeltaResponses == {"raises", "rows", "rows_no_open", "rows_invalid"}

\* lines 193-195, for the answer r to the call for ticker t
DeltaAssign(df, t, r, isOpen) ==
  LET dates == YfDates(tickers_to_fetch_delta[t], DayOf(now))
  IN IF r = "raises" \/ dates = {}
     THEN df
     ELSE SetColumn(df, t,
            IF isOpen /\ r \in {"rows", "rows_invalid"}
            THEN OpenSeries(t, dates, DayOf(now))
            ELSE IF r = "rows_invalid"
                 THEN InvalidSeries(dates)
                 ELSE CloseSeries(t, dates, DayOf(now)))

\* the delta tickers in dict order (the order of the request)
DeltaOrder == SelectSeq(tickers, LAMBDA t : t \in DOMAIN tickers_to_fetch_delta)

RECURSIVE DeltaLoop(_, _, _, _)
\* lines 183-198 over the first n delta tickers
DeltaLoop(n, resp, df, isOpen) ==
  IF n = 0 THEN df
  ELSE DeltaAssign(DeltaLoop(n - 1, resp, df, isOpen),
                   DeltaOrder[n], resp[DeltaOrder[n]], isOpen)

\* lines 175-201
DeltaFetch ==
  /\ pc = "planned"
  /\ ~NothingToFetch
  /\ \E resp \in [DOMAIN tickers_to_fetch_delta -> DeltaResponses] :
       /\ delta_close' = DeltaLoop(Len(DeltaOrder), resp, EmptyDF, FALSE)
       /\ delta_open' = DeltaLoop(Len(DeltaOrder), resp, EmptyDF, TRUE)
       /\ yf_calls' = [i \in 1..Len(DeltaOrder) |->
            [mode |-> "delta", tickers |-> <<DeltaOrder[i]>>,
             start |-> tickers_to_fetch_delta[DeltaOrder[i]],
             end |-> DayOf(now)]]
       /\ failed' = {t \in DOMAIN tickers_to_fetch_delta : resp[t] = "raises"}
  /\ pc' = "full"
  /\ UNCHANGED <<now, disk, tickers, use_cache, client, use_tiingo_fallback,
                 end_date, cached_close, cached_open, tickers_to_fetch_full,
                 tickers_to_fetch_delta, new_close, new_open, final_close,
                 final_open, ret, tiingo_calls, tiingo_cols, tiingo_failed, read_outcome,
                 write_outcome, pre, prev, cycles>>

\* What the primary (bulk) provider can answer to one batch call:
\*   raises   - the call raises after all retries (or a permanent error);
\*   frame    - a frame carrying adjClose (and adjOpen when has_open) for the
\*              tickers `cols` (no ticker: a frame without rows)
PrimaryResponses(missing) ==
  {[kind |-> "raises", cols |-> {}, has_open |-> TRUE]}
  \cup {[kind |-> "frame", cols |-> c, has_open |-> o] :
          c \in SUBSET Range(missing), o \in BOOLEAN}

\* lines 231-254: new_close as parsed from the primary's answer
TiingoClose(r, end) ==
  IF r.kind = "raises" \/ r.cols = {}
  THEN EmptyDF
  ELSE MkDF(r.cols, TiingoDates(StartDate, end),
            LAMBDA t, d : AdjClose(t, d, end))

\* lines 231-254: new_open; without adjOpen in the answer it stays pd.DataFrame()
TiingoOpen(r, end) ==
  IF r.kind = "raises" \/ r.cols = {} \/ ~r.has_open
  THEN EmptyDF
  ELSE MkDF(r.cols, TiingoDates(StartDate, end),
            LAMBDA t, d : AdjOpen(t, d, end))

\* line 216: the primary is tried for a non-empty full set when a client exists
PrimaryTried == tickers_to_fetch_full # <<>> /\ client

\* lines 203-257
PrimaryFetch ==
  /\ pc = "full"
  /\ \/ /\ PrimaryTried
        /\ \E r \in PrimaryResponses(tickers_to_fetch_full) :
             /\ new_close' = TiingoClose(r, end_date)
             /\ new_open' = TiingoOpen(r, end_date)
             /\ tiingo_cols' = r.cols
             /\ tiingo_failed' = (r.kind = "raises")
        /\ tiingo_calls' = Append(tiingo_calls, tickers_to_fetch_full)
     \/ /\ ~PrimaryTried
        /\ UNCHANGED <<new_close, new_open, tiingo_cols, tiingo_failed,
                     tiingo_calls>>
  /\ pc' = "fallback"
  /\ UNCHANGED <<now, disk, tickers, use_cache, client, use_tiingo_fallback,
                 end_date, cached_close, cached_open, tickers_to_fetch_full,
                 tickers_to_fetch_delta, delta_close, delta_open, final_close,
                 final_open, ret, yf_calls, failed, read_outcome,
                 write_outcome, pre, prev, cycles>>

\* mutant of StillMissing: everything is sent to the secondary again
StillMissingAll(nc, missing) == missing

\* lines 260-263
StillMissing(nc, missing) ==
  IF IsEmpty(nc) THEN missing
  ELSE SelectSeq(missing, LAMBDA t : t \notin nc.cols)

\* line 265
FallbackTried(sm, fb, cl) == sm # <<>> /\ (fb \/ ~cl)

\* What the secondary provider can answer to the batch call for still_missing:
\* it raises after all retries, or gives a (Price, Ticker) frame with a column
\* per ticker of `cols`, of which only the tickers `got` have values
YfResponses(sm) ==
  {[kind |-> "raises", cols |-> {}, got |-> {}]}
  \cup {[kind |-> "frame", cols |-> c, got |-> g] :
          c \in SUBSET Range(sm), g \in SUBSET Range(sm)}

\* a ticker with values has a column; a frame without rows is pd.DataFrame()
YfWellFormed(r) == r.got \subseteq r.cols /\ (r.got = {} => r.cols = {})

\* lines 285-311: yf_close / yf_open; a frame without a valued ticker has no row
YfFrame(r, end, Quote(_, _, _)) ==
  MkDF(r.cols, IF r.got = {} THEN {} ELSE YfDates(StartDate, end),
       LAMBDA t, d : IF t \in r.got THEN Quote(t, d, end) ELSE NaN)

\* lines 313-319
MergeNew(nw, yf) == IF IsEmpty(nw) THEN yf ELSE JoinOuter(nw, yf)

\* lines 259-322
FallbackFetch ==
  /\ pc = "fallback"
  /\ LET sm == StillMissing(new_close, tickers_to_fetch_full)
     IN \/ /\ FallbackTried(sm, use_tiingo_fallback, client)
           /\ yf_calls' = Append(yf_calls,
                [mode |-> "full", tickers |-> sm, start |-> StartDate,
                 end |-> end_date])
           /\ \E r \in YfResponses(sm) :
                /\ YfWellFormed(r)
                /\ \/ /\ r.kind = "raises"
                      \* line 269 is outside every try: the error leaves
                      \* fetch_prices_fast
                      /\ ret' = [NoRet EXCEPT !.kind = "raised", !.at = now]
                      /\ failed' = failed \cup Range(sm)
                      /\ pc' = "idle"
                      /\ UNCHANGED <<new_close, new_open>>
                   \/ /\ r.kind = "frame"
                      /\ new_close' = MergeNew(new_close, YfFrame(r, end_date, AdjClose))
                      /\ new_open' = MergeNew(new_open, YfFrame(r, end_date, AdjOpen))
                      /\ pc' = "merge"
                      /\ UNCHANGED <<ret, failed>>
        \/ /\ ~FallbackTried(sm, use_tiingo_fallback, client)
           /\ pc' = "merge"
           /\ UNCHANGED <<new_close, new_open, yf_calls, ret, failed>>
  /\ UNCHANGED <<now, disk, tickers, use_cache, client, use_tiingo_fallback,
                 end_date, cached_close, cached_open, tickers_to_fetch_full,
                 tickers_to_fetch_delta, delta_close, delta_open, final_close,
                 final_open, tiingo_calls, tiingo_cols, tiingo_failed, read_outcome,
                 write_outcome, pre, prev, cycles>>

\* lines 327-334: cached overlaid with the delta frames
ApplyDelta(cached, dlt, dclose) ==
  IF ~IsEmpty(dclose) THEN CombineFirst(cached, dlt) ELSE cached

\* lines 336-342: the new tickers' columns appended
AppendNew(running, nw, nclose) ==
  IF ~IsEmpty(nclose) THEN ConcatDedup(running, nw) ELSE running

\* lines 327-342
Merge(cached, dlt, nw, dclose, nclose) ==
  AppendNew(ApplyDelta(cached, dlt, dclose), nw, nclose)

\* mutant of Available: the tickers of the close table alone
AvailableClose(fc, fo, tk) == {t \in Range(tk) : t \in fc.cols}

\* lines 358-362
Available(fc, fo, tk) ==
  {t \in Range(tk) : t \in fc.cols} \cap {t \in Range(tk) : t \in fo.cols}

\* line 362: list(set(available_close) & set(available_open)), each ticker once
TickerOrder == <<"A", "B">>
AvailableList(fc, fo, tk) ==
  SelectSeq(TickerOrder, LAMBDA t : t \in Available(fc, fo, tk))

\* mutant of WriteErrorEscapes: the error of a write leaves the call
WriteErrorEscapesAlways(w) == w # "ok"

\* lines 351-355: `except Exception` keeps the error of a write inside
WriteErrorEscapes(w) == FALSE

\* lines 351-355: to_parquet of the close file, then of the open file; a write
\* that raises skips what follows it and leaves its file as it was
WriteOutcomes == {"ok", "close_raises", "open_raises"}
Written(w, fc, fo) ==
  [close |-> IF w = "close_raises" THEN disk.close
             ELSE [exists |-> TRUE, df |-> fc],
   open |-> IF w = "ok" THEN [exists |-> TRUE, df |-> fo] ELSE disk.open]

\* lines 324-372
MergeAndSave ==
  /\ pc = "merge"
  /\ LET fc == Merge(cached_close, delta_close, new_close, delta_close, new_close)
         fo == Merge(cached_open, delta_open, new_open, delta_close, new_close)
     IN /\ final_close' = fc
        /\ final_open' = fo
        /\ \/ /\ ~IsEmpty(fc)
              /\ \E w \in WriteOutcomes :
                   /\ disk' = Written(w, fc, fo) /\ write_outcome' = w
                   /\ ret' =
                        IF WriteErrorEscapes(w)
                        THEN [NoRet EXCEPT !.kind = "raised", !.at = now]
                        ELSE [kind |-> "merged", at |-> now,
                              close |-> Select(fc, Available(fc, fo, tickers)),
                              open |-> Select(fo, Available(fc, fo, tickers)),
                              ccols |-> AvailableList(fc, fo, tickers),
                              ocols |-> AvailableList(fc, fo, tickers)]
           \/ /\ IsEmpty(fc)
              /\ disk' = disk
              /\ write_outcome' = "none"
              /\ ret' = [kind |-> "cacheonly", at |-> now,
                         close |-> IF ~IsEmpty(cached_close)
                                   THEN Select(cached_close, Range(tickers))
                                   ELSE EmptyDF,
                         open |-> IF ~IsEmpty(cached_open)
                                  THEN Select(cached_open, Range(tickers))
                                  ELSE EmptyDF,
                         ccols |-> IF ~IsEmpty(cached_close)
                                   THEN tickers ELSE <<>>,
                         ocols |-> IF ~IsEmpty(cached_open)
                                   THEN tickers ELSE <<>>]
  /\ pc' = "idle"
  /\ UNCHANGED <<now, tickers, use_cache, client, use_tiingo_fallback,
                 end_date, cached_close, cached_open, tickers_to_fetch_full,
                 tickers_to_fetch_delta, delta_close, delta_open, new_close,
                 new_open, tiingo_calls, tiingo_cols, tiingo_failed, yf_calls, failed, read_outcome,
                 pre,
                 prev, cycles>>

\* time passes between calls
Tick ==
  /\ pc = "idle"
  /\ now < MaxNow
  /\ now' = now + 1
  /\ UNCHANGED <<disk, pc, tickers, use_cache, client, use_tiingo_fallback,
                 end_date, cached_close, cached_open, tickers_to_fetch_full,
                 tickers_to_fetch_delta, delta_close, delta_open, new_close,
                 new_open, final_close, final_open, ret, tiingo_calls,
                 tiingo_cols, tiingo_failed, yf_calls, failed, read_outcome,
                 write_outcome, pre, prev, cycles>>

LoaderInit ==
  /\ now = TicksPerDay
  /\ disk = [close |-> NoFile, open |-> NoFile]
  /\ pc = "idle"
  /\ tickers = <<>>
  /\ use_cache = TRUE
  /\ client = FALSE
  /\ use_tiingo_fallback = TRUE
  /\ end_date = 1
  /\ cached_close = EmptyDF /\ cached_open = EmptyDF
  /\ tickers_to_fetch_full = <<>>
  /\ tickers_to_fetch_delta = NoDelta
  /\ delta_close = EmptyDF /\ delta_open = EmptyDF
  /\ new_close = EmptyDF /\ new_open = EmptyDF
  /\ final_close = EmptyDF /\ final_open = EmptyDF
  /\ ret = NoRet
  /\ tiingo_calls = <<>> /\ tiingo_cols = {} /\ yf_calls = <<>>
  /\ tiingo_failed = FALSE
  /\ failed = {}
  /\ read_outcome = "ok" /\ write_outcome = "none"
  /\ pre = [close |-> NoFile, open |-> NoFile]
  /\ prev = NoPrev
  /\ cycles = 0

\* Python's None and the float nan, as values of a field (prices are >= 0)
PyNone == -1
FloatNaN == -2
\* no row yet
NoRow == [open |-> PyNone, high |-> PyNone, low |-> PyNone,
          close |-> PyNone, volume |-> PyNone]

ValidateIdle ==
  vpc = "idle" /\ vrow = NoRow /\ vdata = NoRow /\ vverdict = "none"

\* worker threads of the ThreadPoolExecutor
Workers == {1, 2}
\* ticker not in self.last_request_time
NotSeen == -1

RateIdle ==
  /\ clk = 0
  /\ last_request_time = [t \in Tickers |-> NotSeen]
  /\ wpc = [w \in Workers |-> "idle"]
  /\ wtk = [w \in Workers |-> "A"]
  /\ wwake = [w \in Workers |-> 0]
  /\ wattempt = [w \in Workers |-> 0]
  /\ calls = <<>>
  /\ submitted = 0

\* the processes that share the cache directory
Procs == {1, 2}
NoPair == [close |-> EmptyDF, open |-> EmptyDF]

SaveIdle ==
  /\ sdisk = [close |-> NoFile, open |-> NoFile]
  /\ spc = [p \in Procs |-> "idle"]
  /\ sfinal = [p \in Procs |-> NoPair]
  /\ slast = 0
  /\ scycles = 0

\* the clients of the trade API
Clients == {1, 2}
\* no trade_id, and the row of a primary key that is not stored
NoId == [prefix |-> "", day |-> 0, seq |-> 0]
NoTrade == [id |-> 0, trade_id |-> NoId, status |-> "absent",
            exit_price |-> PyNone, exit_date |-> PyNone, pnl |-> PyNone]
NoResp == [op |-> "none", code |-> 0, tid |-> NoId]

\* an empty trades table
TradeIdle ==
  /\ tbl = [k \in 1..MaxTrades |-> NoTrade]
  /\ next_pk = 1
  /\ cpc = [c \in Clients |-> "idle"]
  /\ cid = [c \in Clients |-> NoId]
  /\ response = NoResp

\* no entry of the results dict, and a future that has not ended
NoOutcome == [success |-> FALSE, prices |-> -1, error |-> "absent"]
Pending == [state |-> "pending", raised |-> FALSE, val |-> NoOutcome]

MultiIdle ==
  /\ mpc = "idle"
  /\ future_to_ticker = <<>>
  /\ futures = <<>>
  /\ results = [t \in Tickers |-> NoOutcome]
  /\ completed = 0

NoCall == [ticker |-> "A", last_date |-> PyNone, today |-> 1,
           start_date |-> PyNone, end_date |-> PyNone]
NoFrame == [kind |-> "none", rows |-> 0, rejected |-> 0]

GatherIdle ==
  /\ gpc = "idle" /\ gmode = "historical"
  /\ gcall = NoCall /\ gframe = NoFrame /\ gresult = NoOutcome
  /\ gcounted = "none"
  /\ succeeded = 0 /\ failed_count = 0 /\ total_records = 0

\* _scan_results = {} (line 36): no scan has stored results
NoResults == 0
Scans == 1..MaxScans
NoAnswer == [status |-> "none", has_results |-> FALSE, last_scan |-> NoResults]

\* the module globals as the import leaves them, lines 36-37
ScanIdle ==
  /\ scan_status = "idle" /\ scan_results = NoResults
  /\ scan_pc = [k \in Scans |-> "unstarted"]
  /\ scan_dump = [k \in Scans |-> NoResults]
  /\ scan_file = NoResults
  /\ scan_answer = NoAnswer

RetryIdle ==
  /\ rpc = "idle" /\ rkind = "decorator"
  /\ max_retries = 0 /\ base_delay = 1 /\ max_delay = 1
  /\ attempt = 0 /\ attempts = 0 /\ sleeps = <<>>
  /\ outcome = "none" /\ errors = <<>>
  /\ returned = NoOutcome

Init ==
  /\ LoaderInit /\ RetryIdle /\ ValidateIdle /\ RateIdle /\ SaveIdle
  /\ TradeIdle /\ MultiIdle /\ GatherIdle /\ ScanIdle

Next ==
  \/ /\ \E tk \in Requests, uc \in BOOLEAN, cf \in Configs, rd \in ReadOutcomes :
          /\ (rd # "ok" => CacheRead(uc))
          /\ Start(tk, uc, cf.client, cf.fallback, rd)
     /\ UNCHANGED restOfLoader
  \/ EarlyReturn /\ UNCHANGED restOfLoader
  \/ DeltaFetch /\ UNCHANGED restOfLoader
  \/ PrimaryFetch /\ UNCHANGED restOfLoader
  \/ FallbackFetch /\ UNCHANGED restOfLoader
  \/ MergeAndSave /\ UNCHANGED restOfLoader
  \/ Tick /\ UNCHANGED restOfLoader

Spec == Init /\ [][Next]_vars

(* -------------------- retry_api_call / fetch_ticker_history ------------ *)
\* YahooFinanceFetcher.RETRY_DELAY
RETRY_DELAY == 3

RECURSIVE Pow2(_)
Pow2(n) == IF n = 0 THEN 1 ELSE 2 * Pow2(n - 1)

Min(a, b) == IF a < b THEN a ELSE b

\* what one provider attempt can do: return a value, return an empty frame,
\* raise a transient error (ConnectionError, TimeoutError, OSError), or raise
\* a permanent one (any other Exception: bad ticker, auth failure, parse error)
AttemptResults == {"value", "empty", "transient", "permanent"}

\* mutant of BackoffDelay: a linear schedule under the same cap
BackoffDelayLinear(base, k, cap) == Min(base * (k + 1), cap)

\* line 51 of fast_data_loader.py
BackoffDelay(base, k, cap) == Min(base * Pow2(k), cap)

\* line 128 of yahoo_finance.py
HistoryDelay(k) == RETRY_DELAY * (k + 1)

\* mutant of IsTransient: every exception is retried
IsTransientAny(res) == res \in {"transient", "permanent"}

\* line 48 of fast_data_loader.py: the errors the decorator retries
IsTransient(res) == res = "transient"

\* a call through the decorator (RetryConfig) or through fetch_ticker_history
\* (max_retries parameter) begins
RetryStart(kind, mr, bd, md) ==
  /\ rpc \in {"idle", "done"}
  /\ rkind' = kind
  /\ max_retries' = mr
  /\ base_delay' = bd
  /\ max_delay' = md
  /\ attempt' = 0 /\ attempts' = 0
  /\ sleeps' = <<>> /\ errors' = <<>>
  /\ outcome' = "none"
  /\ returned' = NoOutcome
  /\ rpc' = "call"

\* retry_api_call.wrapper, one pass of the loop of lines 45-59, and line 60
\* when the loop ends
DecoratorAttempt(res) ==
  /\ rpc = "call" /\ rkind = "decorator"
  /\ attempt <= max_retries
  /\ attempts' = attempts + 1
  /\ \/ /\ res \in {"value", "empty"}
        /\ outcome' = "value" /\ rpc' = "done"
        /\ UNCHANGED <<attempt, sleeps, errors>>
     \/ /\ res \in {"transient", "permanent"} /\ IsTransient(res)
        /\ errors' = Append(errors, res)
        /\ IF attempt < max_retries
           THEN /\ sleeps' = Append(sleeps,
                               BackoffDelay(base_delay, attempt, max_delay))
                /\ attempt' = attempt + 1
                /\ UNCHANGED <<outcome, rpc>>
           ELSE /\ outcome' = "raised" /\ rpc' = "done"
                /\ UNCHANGED <<attempt, sleeps>>
     \/ /\ res \in {"transient", "permanent"} /\ ~IsTransient(res)
        /\ errors' = Append(errors, res)
        /\ outcome' = "raised" /\ rpc' = "done"
        /\ UNCHANGED <<attempt, sleeps>>
  /\ UNCHANGED <<rkind, max_retries, base_delay, max_delay, returned>>

\* str(e) of the exception a provider call raises (line 124); exceptions
\* built without arguments, such as TimeoutError(), have the empty text
ErrorTexts == {"", "timed out"}

\* fetch_ticker_history, one pass of the loop of lines 92-130
HistoryAttempt(res) ==
  /\ rpc = "call" /\ rkind = "history"
  /\ attempt < max_retries
  /\ attempts' = attempts + 1
  /\ \/ /\ res = "value"
        /\ outcome' = "success" /\ rpc' = "done"
        /\ \E n \in 0..MaxRows :
             returned' = [success |-> TRUE, prices |-> n, error |-> "none"]
        /\ UNCHANGED <<attempt, sleeps, errors>>
     \/ /\ res = "empty"
        /\ outcome' = "failed" /\ rpc' = "done"
        /\ returned' = [success |-> FALSE, prices |-> 0,
                        error |-> "No data available"]
        /\ UNCHANGED <<attempt, sleeps, errors>>
     \/ /\ res \in {"transient", "permanent"}
        /\ errors' = Append(errors, res)
        /\ IF attempt < max_retries - 1
           THEN /\ sleeps' = Append(sleeps, HistoryDelay(attempt))
                /\ attempt' = attempt + 1
                /\ UNCHANGED <<outcome, rpc, returned>>
           ELSE /\ outcome' = "failed" /\ rpc' = "done"
                /\ \E error_msg \in ErrorTexts :
                     returned' = [success |-> FALSE, prices |-> 0,
                                  error |-> error_msg]
                /\ UNCHANGED <<attempt, sleeps>>
  /\ UNCHANGED <<rkind, max_retries, base_delay, max_delay>>

\* fetch_ticker_history, line 132: the loop ended without a return
HistoryExhausted ==
  /\ rpc = "call" /\ rkind = "history"
  /\ attempt >= max_retries
  /\ outcome' = "failed" /\ rpc' = "done"
  /\ returned' = [success |-> FALSE, prices |-> 0,
                  error |-> "Max retries exceeded"]
  /\ UNCHANGED <<rkind, max_retries, base_delay, max_delay, attempt, attempts,
                 sleeps, errors>>

NextRetry ==
  \/ /\ \E mr \in 0..MaxRetriesBound, bd \in 1..MaxBaseDelay,
           md \in 1..MaxDelayBound : RetryStart("decorator", mr, bd, md)
     /\ UNCHANGED restOfRetry
  \/ /\ \E mr \in 0..MaxRetriesBound : RetryStart("history", mr, RETRY_DELAY, 1)
     /\ UNCHANGED restOfRetry
  \/ /\ \E res \in AttemptResults : DecoratorAttempt(res)
     /\ UNCHANGED restOfRetry
  \/ /\ \E res \in AttemptResults : HistoryAttempt(res)
     /\ UNCHANGED restOfRetry
  \/ HistoryExhausted /\ UNCHANGED restOfRetry

SpecRetry == Init /\ [][NextRetry]_vars

(* ------------- fetch_ticker_history: rows and their validation --------- *)
\* what the provider's frame can hold in a price column and in 'Volume'
PriceValues == {PyNone, FloatNaN} \cup (0..MaxPrice)
VolumeValues == {PyNone, FloatNaN} \cup (0..MaxVolume)
ProviderRows ==
  [open : PriceValues, high : PriceValues, low : PriceValues,
   close : PriceValues, volume : VolumeValues]

\* yahoo_finance.py lines 106-109: float(x) if x is not None else None
\* (float(nan) is nan)
ToFloat(v) == IF v = PyNone THEN PyNone ELSE v
\* line 111: int(x) if x is not None else 0, for an x that int() accepts
ToInt(v) == IF v = PyNone THEN 0 ELSE v
\* line 111: int(nan) raises ValueError
IntRaises(v) == v = FloatNaN
\* lines 104-112
BuildPriceData(row) ==
  [open |-> ToFloat(row.open), high |-> ToFloat(row.high),
   low |-> ToFloat(row.low), close |-> ToFloat(row.close),
   volume |-> ToInt(row.volume)]

\* Python's a < b and a <= b on floats: False whenever an operand is nan
PyLess(a, b) == a # FloatNaN /\ b # FloatNaN /\ a < b
PyLessEq(a, b) == a # FloatNaN /\ b # FloatNaN /\ a <= b
\* lines 42-45
RequiredFields == {"open", "high", "low", "close", "volume"}
\* _validate_price_data, lines 41-68: is_valid
ValidatePriceData(data) ==
  IF \E f \in RequiredFields : data[f] = PyNone THEN FALSE
  ELSE IF PyLess(data.high, data.low) THEN FALSE
  ELSE IF PyLess(data.high, data.close) \/ PyLess(data.close, data.low) THEN FALSE
  ELSE IF PyLess(data.high, data.open) \/ PyLess(data.open, data.low) THEN FALSE
  ELSE IF \/ PyLessEq(data.open, 0) \/ PyLessEq(data.high, 0)
          \/ PyLessEq(data.low, 0) \/ PyLessEq(data.close, 0) THEN FALSE
  ELSE TRUE

\* lines 101-112: the loop takes a row of the frame and builds price_data; an
\* int() that raises is caught at line 123 and fails the attempt
BuildRow(row) ==
  /\ vpc = "idle"
  /\ vrow' = row
  /\ IF IntRaises(row.volume)
     THEN vdata' = NoRow /\ vverdict' = "raised" /\ vpc' = "done"
     ELSE vdata' = BuildPriceData(row) /\ vverdict' = "none" /\ vpc' = "built"

\* lines 114-119: an invalid row is skipped, a valid one appended to prices
ValidateRow ==
  /\ vpc = "built"
  /\ vverdict' = IF ValidatePriceData(vdata) THEN "accepted" ELSE "skipped"
  /\ vpc' = "done"
  /\ UNCHANGED <<vrow, vdata>>

NextValidate ==
  \/ /\ \E row \in ProviderRows : BuildRow(row)
     /\ UNCHANGED restOfValidate
  \/ ValidateRow /\ UNCHANGED restOfValidate

SpecValidate == Init /\ [][NextValidate]_vars

(* ------------- _rate_limit under fetch_multiple's threads -------------- *)
\* YahooFinanceFetcher.MIN_REQUEST_INTERVAL (1.5 s) in half seconds
MIN_REQUEST_INTERVAL == 3
\* YahooFinanceFetcher.MAX_RETRIES
MAX_RETRIES == 3
\* seconds in half seconds
HalfSeconds(sec) == 2 * sec

\* fetch_multiple, lines 176-181 (or any caller): a worker thread takes a
\* fetch_ticker_history call for ticker t; a list may name a ticker twice
Submit(w, t) ==
  /\ wpc[w] \in {"idle", "done"}
  /\ submitted < MaxSubmits
  /\ submitted' = submitted + 1
  /\ wtk' = [wtk EXCEPT ![w] = t]
  /\ wattempt' = [wattempt EXCEPT ![w] = 0]
  /\ wpc' = [wpc EXCEPT ![w] = "limit"]
  /\ UNCHANGED <<clk, last_request_time, wwake, calls>>

\* _rate_limit, line 33: the sleep asked for when the ticker was seen at `last`
RateSleep(last, t_now) ==
  IF last # NotSeen /\ t_now - last < MIN_REQUEST_INTERVAL
  THEN MIN_REQUEST_INTERVAL - (t_now - last)
  ELSE 0

\* _rate_limit, lines 30-33: read of the dict and of the clock
RateCheck(w) ==
  /\ wpc[w] = "limit"
  /\ LET d == RateSleep(last_request_time[wtk[w]], clk)
     IN IF d > 0
        THEN /\ wwake' = [wwake EXCEPT ![w] = clk + d]
             /\ wpc' = [wpc EXCEPT ![w] = "sleep"]
        ELSE /\ wpc' = [wpc EXCEPT ![w] = "stamp"]
             /\ UNCHANGED wwake
  /\ UNCHANGED <<clk, last_request_time, wtk, wattempt, calls, submitted>>

\* time.sleep of line 33 returns, not before the time asked for
RateWake(w) ==
  /\ wpc[w] = "sleep"
  /\ clk >= wwake[w]
  /\ wpc' = [wpc EXCEPT ![w] = "stamp"]
  /\ UNCHANGED <<clk, last_request_time, wtk, wwake, wattempt, calls, submitted>>

\* _rate_limit, line 34
RateStamp(w) ==
  /\ wpc[w] = "stamp"
  /\ last_request_time' = [last_request_time EXCEPT ![wtk[w]] = clk]
  /\ wpc' = [wpc EXCEPT ![w] = "call"]
  /\ UNCHANGED <<clk, wtk, wwake, wattempt, calls, submitted>>

\* fetch_ticker_history, lines 92-130: one attempt; the provider call of
\* lines 94-95 starts now, and returns a frame or raises
ProviderCall(w, raises) ==
  /\ wpc[w] = "call"
  /\ wattempt[w] < MAX_RETRIES
  /\ calls' = Append(calls, [ticker |-> wtk[w], at |-> clk])
  /\ IF raises /\ wattempt[w] < MAX_RETRIES - 1
     THEN /\ wwake' = [wwake EXCEPT ![w] =
                         clk + HalfSeconds(HistoryDelay(wattempt[w]))]
          /\ wattempt' = [wattempt EXCEPT ![w] = wattempt[w] + 1]
          /\ wpc' = [wpc EXCEPT ![w] = "backoff"]
     ELSE /\ wpc' = [wpc EXCEPT ![w] = "done"]
          /\ UNCHANGED <<wwake, wattempt>>
  /\ UNCHANGED <<clk, last_request_time, wtk, submitted>>

\* time.sleep of line 128 returns
BackoffOver(w) ==
  /\ wpc[w] = "backoff"
  /\ clk >= wwake[w]
  /\ wpc' = [wpc EXCEPT ![w] = "call"]
  /\ UNCHANGED <<clk, last_request_time, wtk, wwake, wattempt, calls, submitted>>

\* half a second passes
ClockTick ==
  /\ clk < MaxClock
  /\ clk' = clk + 1
  /\ UNCHANGED <<last_request_time, wpc, wtk, wwake, wattempt, calls, submitted>>

NextRate ==
  \/ /\ \E w \in Workers, t \in Tickers : Submit(w, t)
     /\ UNCHANGED restOfRate
  \/ /\ \E w \in Workers : RateCheck(w)
     /\ UNCHANGED restOfRate
  \/ /\ \E w \in Workers : RateWake(w)
     /\ UNCHANGED restOfRate
  \/ /\ \E w \in Workers : RateStamp(w)
     /\ UNCHANGED restOfRate
  \/ /\ \E w \in Workers, raises \in BOOLEAN : ProviderCall(w, raises)
     /\ UNCHANGED restOfRate
  \/ /\ \E w \in Workers : BackoffOver(w)
     /\ UNCHANGED restOfRate
  \/ ClockTick /\ UNCHANGED restOfRate

SpecRate == Init /\ [][NextRate]_vars

(* --------- two processes running fetch cycles on one cache ------------- *)
\* lines 125-136 with use_cache=True, on the shared directory
SharedCached(which) ==
  IF sdisk.close.exists /\ sdisk.open.exists
  THEN sdisk[which].df ELSE EmptyDF

\* the answer of the primary provider that carries every ticker asked for
FullAnswer(tk) ==
  [kind |-> "frame",
   cols |-> Range(PlanFull(tk, SharedCached("close"), SharedCached("open"))),
   has_open |-> TRUE]

\* lines 125-342: a process loads the cache, fetches its new tickers on day
\* StartDate and merges; nothing of this writes to the directory
ProcMerge(p, tk) ==
  /\ spc[p] \in {"idle", "done"}
  /\ scycles < MaxSaveCycles
  /\ scycles' = scycles + 1
  /\ LET nc == TiingoClose(FullAnswer(tk), StartDate)
         no == TiingoOpen(FullAnswer(tk), StartDate)
     IN sfinal' = [sfinal EXCEPT ![p] =
          [close |-> Merge(SharedCached("close"), EmptyDF, nc, EmptyDF, nc),
           open |-> Merge(SharedCached("open"), EmptyDF, no, EmptyDF, nc)]]
  /\ spc' = [spc EXCEPT ![p] = "merged"]
  /\ UNCHANGED <<sdisk, slast>>

\* line 352: final_close.to_parquet(cache_file_close)
ProcSaveClose(p) ==
  /\ spc[p] = "merged"
  /\ ~IsEmpty(sfinal[p].close)
  /\ sdisk' = [sdisk EXCEPT !.close = [exists |-> TRUE, df |-> sfinal[p].close]]
  /\ spc' = [spc EXCEPT ![p] = "close_saved"]
  /\ UNCHANGED <<sfinal, slast, scycles>>

\* line 353: final_open.to_parquet(cache_file_open); the save is complete
ProcSaveOpen(p) ==
  /\ spc[p] = "close_saved"
  /\ sdisk' = [sdisk EXCEPT !.open = [exists |-> TRUE, df |-> sfinal[p].open]]
  /\ spc' = [spc EXCEPT ![p] = "done"]
  /\ slast' = p
  /\ UNCHANGED <<sfinal, scycles>>

NextSave ==
  \/ /\ \E p \in Procs, tk \in Requests : ProcMerge(p, tk)
     /\ UNCHANGED restOfSave
  \/ /\ \E p \in Procs : ProcSaveClose(p)
     /\ UNCHANGED restOfSave
  \/ /\ \E p \in Procs : ProcSaveOpen(p)
     /\ UNCHANGED restOfSave

SpecSave == Init /\ [][NextSave]_vars

(* ------------- TradeService / TradeRepository / trades router ---------- *)
\* the prefixes the callers of /utils/generate-id give
Prefixes == {"TRD", "MOM"}
\* the primary keys the requests name: those of the table and one beyond
PkInputs == 1..(MaxTrades + 1)
\* a field the PATCH body does not set (model_dump(exclude_unset=True))
Unset == -3
\* the entry price of every trade posted
EntryPrice == 1
\* datetime.utcnow() as a date: the requests of a behaviour come on one day
UtcDay == 2

\* the primary keys that have a row
Stored(t) == {k \in 1..MaxTrades : t[k].status # "absent"}
\* the trade_ids of the rows
StoredTradeIds(t) == {t[k].trade_id : k \in Stored(t)}

\* mutant of GetById: the filter on the primary key is lost and the first
\* row of the table is taken
GetByIdFirst(pk) ==
  IF Stored(tbl) = {} THEN NoTrade
  ELSE tbl[CHOOSE k \in Stored(tbl) : \A j \in Stored(tbl) : k <= j]

\* TradeRepository.get_by_id: the row of the primary key, or None
GetById(pk) == IF pk \in Stored(tbl) THEN tbl[pk] ELSE NoTrade

\* TradeRepository.get_by_trade_id is not None
GetByTradeId(tid) == tid \in StoredTradeIds(tbl)

\* TradeRepository.get_statistics()['total_trades']: select count(Trade.id)
TotalTrades == Cardinality(Stored(tbl))

\* TradeService.generate_trade_id, line 285: prefix-YYYYMMDD-seq
TradeIdOf(prefix, day, seq) == [prefix |-> prefix, day |-> day, seq |-> seq]

\* GET /utils/generate-id: a client is given an id to post a trade under
GenerateTradeId(c, prefix) ==
  /\ cpc[c] = "idle"
  /\ cid' = [cid EXCEPT ![c] = TradeIdOf(prefix, UtcDay, TotalTrades + 1)]
  /\ cpc' = [cpc EXCEPT ![c] = "generated"]
  /\ response' = [op |-> "generate", code |-> 200,
                  tid |-> TradeIdOf(prefix, UtcDay, TotalTrades + 1)]
  /\ UNCHANGED <<tbl, next_pk>>

\* POST /: TradeService.create_trade, lines 53-55, up to the await of line 57
CreateCheck(c) ==
  /\ cpc[c] = "generated"
  /\ IF GetByTradeId(cid[c])
     THEN /\ response' = [op |-> "create", code |-> 400,
                  tid |-> NoId]
          /\ cpc' = [cpc EXCEPT ![c] = "idle"]
     ELSE /\ cpc' = [cpc EXCEPT ![c] = "checked"]
          /\ UNCHANGED response
  /\ UNCHANGED <<tbl, next_pk, cid>>

\* TradeRepository.create, lines 45-60
NewTrade(pk, tid) ==
  [id |-> pk, trade_id |-> tid, status |-> "OPEN", exit_price |-> PyNone,
   exit_date |-> PyNone, pnl |-> PyNone]

\* TradeRepository.create, lines 62-66: the commit inserts the row. Whether
\* the trades table holds trade_id unique is declared outside these files: the
\* commit of a second row of one trade_id inserts it too, or raises
CreateInsert(c) ==
  /\ cpc[c] = "checked"
  /\ next_pk <= MaxTrades
  /\ cpc' = [cpc EXCEPT ![c] = "idle"]
  /\ \/ /\ tbl' = [tbl EXCEPT ![next_pk] = NewTrade(next_pk, cid[c])]
        /\ next_pk' = next_pk + 1
        /\ response' = [op |-> "create", code |-> 201, tid |-> NoId]
     \/ /\ GetByTradeId(cid[c])
        /\ response' = [op |-> "create", code |-> 500, tid |-> NoId]
        /\ UNCHANGED <<tbl, next_pk>>
  /\ UNCHANGED cid

\* GET /{trade_id}, lines 76-88
GetTrade(pk) ==
  /\ response' = [op |-> "get", code |-> IF GetById(pk) = NoTrade THEN 404 ELSE 200,
                  tid |-> NoId]
  /\ UNCHANGED <<tbl, next_pk, cpc, cid>>

\* the bodies of PATCH /{trade_id}: each field set or left out
Patches ==
  [status : {"unset", "OPEN", "CLOSED", "CANCELLED"},
   exit_price : {Unset} \cup (1..MaxExitPrice)]

\* Trade.calculate_pnl, as called at lines 203 and 225
CalculatePnl(row) == [row EXCEPT !.pnl = row.exit_price - EntryPrice]

\* TradeRepository.update, lines 196-203
ApplyUpdate(row, p) ==
  LET set == [row EXCEPT
                !.status = IF p.status # "unset" THEN p.status ELSE @,
                !.exit_price = IF p.exit_price # Unset THEN p.exit_price ELSE @]
  IN IF p.status = "CLOSED" /\ p.exit_price # Unset
     THEN CalculatePnl(set) ELSE set

\* PATCH /{trade_id}: lines 91-106 of the router, 188-208 of the repository
UpdateTrade(pk, p) ==
  /\ LET trade == GetById(pk)
     IN IF trade = NoTrade
        THEN /\ response' = [op |-> "update", code |-> 404,
                  tid |-> NoId]
             /\ UNCHANGED tbl
        ELSE /\ tbl' = [tbl EXCEPT ![trade.id] = ApplyUpdate(trade, p)]
             /\ response' = [op |-> "update", code |-> 200,
                  tid |-> NoId]
  /\ UNCHANGED <<next_pk, cpc, cid>>

\* TradeRepository.close_trade, lines 222-225
ApplyClose(row, price, date) ==
  CalculatePnl([row EXCEPT
                  !.exit_price = price,
                  !.exit_date = IF date # PyNone THEN date ELSE UtcDay,
                  !.status = "CLOSED"])

\* POST /{trade_id}/close: lines 109-125 of the router, 210-230 of the
\* repository
CloseTrade(pk, price, date) ==
  /\ LET trade == GetById(pk)
     IN IF trade = NoTrade \/ trade.status # "OPEN"
        THEN /\ response' = [op |-> "close", code |-> 404,
                  tid |-> NoId]
             /\ UNCHANGED tbl
        ELSE /\ tbl' = [tbl EXCEPT ![trade.id] = ApplyClose(trade, price, date)]
             /\ response' = [op |-> "close", code |-> 200,
                  tid |-> NoId]
  /\ UNCHANGED <<next_pk, cpc, cid>>

\* DELETE /{trade_id}: lines 128-139 of the router, 234-244 of the repository
DeleteTrade(pk) ==
  /\ LET trade == GetById(pk)
     IN IF trade = NoTrade
        THEN /\ response' = [op |-> "delete", code |-> 404,
                  tid |-> NoId]
             /\ UNCHANGED tbl
        ELSE /\ tbl' = [tbl EXCEPT ![trade.id] = NoTrade]
             /\ response' = [op |-> "delete", code |-> 204,
                  tid |-> NoId]
  /\ UNCHANGED <<next_pk, cpc, cid>>

\* the requests that create, read and delete trades, from two clients
NextTrade ==
  \/ /\ \E c \in Clients, prefix \in Prefixes : GenerateTradeId(c, prefix)
     /\ UNCHANGED restOfTrade
  \/ /\ \E c \in Clients : CreateCheck(c)
     /\ UNCHANGED restOfTrade
  \/ /\ \E c \in Clients : CreateInsert(c)
     /\ UNCHANGED restOfTrade
  \/ /\ \E pk \in PkInputs : GetTrade(pk)
     /\ UNCHANGED restOfTrade
  \/ /\ \E pk \in PkInputs : DeleteTrade(pk)
     /\ UNCHANGED restOfTrade

SpecTrade == Init /\ [][NextTrade]_vars

\* the client that posts the trades the other requests work on
Poster == 1

\* every request on a trade, the trades posted by one client
NextTradeEdit ==
  \/ GenerateTradeId(Poster, "TRD") /\ UNCHANGED restOfTrade
  \/ CreateCheck(Poster) /\ UNCHANGED restOfTrade
  \/ CreateInsert(Poster) /\ UNCHANGED restOfTrade
  \/ /\ \E pk \in PkInputs : GetTrade(pk)
     /\ UNCHANGED restOfTrade
  \/ /\ \E pk \in PkInputs, p \in Patches : UpdateTrade(pk, p)
     /\ UNCHANGED restOfTrade
  \/ /\ \E pk \in PkInputs, price \in 1..MaxExitPrice,
           date \in {PyNone} \cup (1..MaxExitDay) : CloseTrade(pk, price, date)
     /\ UNCHANGED restOfTrade
  \/ /\ \E pk \in PkInputs : DeleteTrade(pk)
     /\ UNCHANGED restOfTrade

SpecTradeEdit == Init /\ [][NextTradeEdit]_vars

(* ----------------------------- fetch_multiple -------------------------- *)
\* what fetch_ticker_history returns (lines 98, 121, 130, 132): success with
\* the rows that passed the validation, or failure with no row and a message
HistoryOutcomes ==
  {[success |-> TRUE, prices |-> n, error |-> "none"] : n \in 0..MaxRows}
  \cup {[success |-> FALSE, prices |-> 0, error |-> e] :
          e \in {"no_data", "exception"}}

\* line 189: the outcome recorded for a future whose worker raised
RaisedOutcome == [success |-> FALSE, prices |-> 0, error |-> "exception"]

\* how the future of one task can end: with a returned triple, or raising
FutureEnds ==
  {[state |-> "done", raised |-> FALSE, val |-> o] : o \in HistoryOutcomes}
  \cup {[state |-> "done", raised |-> TRUE, val |-> NoOutcome]}

\* lines 186-189: what the loop stores for a future that has ended
Recorded(f) == IF f.raised THEN RaisedOutcome ELSE f.val

\* lines 172-181: the dict is created and one task per list entry submitted
FetchMultiple(tk) ==
  /\ mpc \in {"idle", "returned"}
  /\ future_to_ticker' = tk
  /\ futures' = [i \in 1..Len(tk) |-> Pending]
  /\ results' = [t \in Tickers |-> NoOutcome]
  /\ completed' = 0
  /\ mpc' = "running"

\* a worker thread ends its fetch_ticker_history call
TaskEnds(i, e) ==
  /\ mpc = "running"
  /\ i \in DOMAIN futures /\ futures[i].state = "pending"
  /\ futures' = [futures EXCEPT ![i] = e]
  /\ UNCHANGED <<mpc, future_to_ticker, results, completed>>

\* lines 184-193: as_completed yields a future that has ended
CollectFuture(i) ==
  /\ mpc = "running"
  /\ i \in DOMAIN futures /\ futures[i].state = "done"
  /\ futures' = [futures EXCEPT ![i].state = "collected"]
  /\ results' = [results EXCEPT ![future_to_ticker[i]] = Recorded(futures[i])]
  /\ completed' = completed + 1
  /\ UNCHANGED <<mpc, future_to_ticker>>

\* line 195: every future was yielded
ReturnResults ==
  /\ mpc = "running"
  /\ \A i \in DOMAIN futures : futures[i].state = "collected"
  /\ mpc' = "returned"
  /\ UNCHANGED <<future_to_ticker, futures, results, completed>>

NextMulti ==
  \/ /\ \E tk \in Requests : FetchMultiple(tk)
     /\ UNCHANGED restOfMulti
  \/ /\ \E i \in 1..2, e \in FutureEnds : TaskEnds(i, e)
     /\ UNCHANGED restOfMulti
  \/ /\ \E i \in 1..2 : CollectFuture(i)
     /\ UNCHANGED restOfMulti
  \/ ReturnResults /\ UNCHANGED restOfMulti

SpecMulti == Init /\ [][NextMulti]_vars

(* ------------- the data gatherer: fetch_incremental and the counting --- *)
\* fetch_incremental's default days_back
DaysBack == 5

\* what the provider answers to stock.history: it raises on every attempt, or
\* gives a frame of `rows` rows of which `rejected` fail _validate_price_data
Frames ==
  {[kind |-> "raises", rows |-> 0, rejected |-> 0]}
  \cup {[kind |-> "frame", rows |-> n, rejected |-> r] :
          n \in 0..MaxRows, r \in 0..MaxRows}
FrameWellFormed(fr) == fr.rejected <= fr.rows

\* fetch_ticker_history, lines 92-132, for the provider's answer fr
HistoryResult(fr) ==
  IF fr.kind = "raises"
  THEN [success |-> FALSE, prices |-> 0, error |-> "exception"]
  ELSE IF fr.rows = 0
  THEN [success |-> FALSE, prices |-> 0, error |-> "no_data"]
  ELSE [success |-> TRUE, prices |-> fr.rows - fr.rejected, error |-> "none"]

\* fetch_incremental, lines 146-154: start_date
IncrementalStart(last_date, today) ==
  IF last_date # PyNone THEN last_date + 1 ELSE today - DaysBack
\* fetch_incremental, line 156: end_date
IncrementalEnd(today) == today + 1

\* tickers processed so far
Processed == succeeded + failed_count

\* update_daily, lines 241-246: fetch_incremental for a ticker whose latest
\* stored price date is last_date (None: no price stored), on day `today`
FetchIncremental(t, last_date, today, fr) ==
  /\ gpc = "idle" /\ Processed < MaxGather
  /\ FrameWellFormed(fr)
  /\ last_date # PyNone => last_date <= today
  /\ gmode' = "daily"
  /\ gcall' = [ticker |-> t, last_date |-> last_date, today |-> today,
               start_date |-> IncrementalStart(last_date, today),
               end_date |-> IncrementalEnd(today)]
  /\ gframe' = fr
  /\ gresult' = HistoryResult(fr)
  /\ gpc' = "fetched"
  /\ UNCHANGED <<gcounted, succeeded, failed_count, total_records>>

\* fetch_all_historical, lines 170-173: fetch_ticker_history from start_date
FetchHistorical(t, today, fr) ==
  /\ gpc = "idle" /\ Processed < MaxGather
  /\ FrameWellFormed(fr)
  /\ gmode' = "historical"
  /\ gcall' = [ticker |-> t, last_date |-> PyNone, today |-> today,
               start_date |-> StartDate, end_date |-> PyNone]
  /\ gframe' = fr
  /\ gresult' = HistoryResult(fr)
  /\ gpc' = "fetched"
  /\ UNCHANGED <<gcounted, succeeded, failed_count, total_records>>

\* __main__.py lines 175-185 and 248-258: `if success and prices:`
CountedSucceeded(res) == res.success /\ res.prices # 0

\* the ticker is counted
CountOutcome ==
  /\ gpc = "fetched"
  /\ IF CountedSucceeded(gresult)
     THEN /\ succeeded' = succeeded + 1
          /\ total_records' = total_records + gresult.prices
          /\ gcounted' = "succeeded"
          /\ UNCHANGED failed_count
     ELSE /\ failed_count' = failed_count + 1
          /\ gcounted' = "failed"
          /\ UNCHANGED <<succeeded, total_records>>
  /\ gpc' = "idle"
  /\ UNCHANGED <<gmode, gcall, gframe, gresult>>

NextGather ==
  \/ /\ \E t \in Tickers, last_date \in {PyNone} \cup Dates, today \in Dates,
           fr \in Frames : FetchIncremental(t, last_date, today, fr)
     /\ UNCHANGED restOfGather
  \/ /\ \E t \in Tickers, today \in Dates, fr \in Frames :
          FetchHistorical(t, today, fr)
     /\ UNCHANGED restOfGather
  \/ CountOutcome /\ UNCHANGED restOfGather

SpecGather == Init /\ [][NextGather]_vars

(* ------------------- scanner router: /run and /status ------------------ *)
\* the scan tasks that were started and have not finished
InFlight == {k \in Scans : scan_pc[k] \in {"logic", "open", "write"}}
\* the scans started so far; run_scan starts them in the order of the requests
Started == {k \in Scans : scan_pc[k] # "unstarted"}

\* POST /run, lines 137-233 (status at line 145, add_task at line 226): sets the status, adds the task; the task runs
\* up to its first await, run_in_threadpool(_scan_logic)
RunScan ==
  /\ Cardinality(Started) < MaxScans
  /\ scan_status' = "running"
  /\ scan_pc' = [scan_pc EXCEPT ![Cardinality(Started) + 1] = "logic"]
  /\ UNCHANGED <<scan_results, scan_dump, scan_file, scan_answer>>

\* execute_scan_task from the return of _scan_logic to the await of
\* aiofiles.open (lines 205-219), or to the except clause (lines 223-224)
ScanLogicDone(k, ok) ==
  /\ scan_pc[k] = "logic"
  /\ IF ok
     THEN /\ scan_results' = k
          /\ scan_pc' = [scan_pc EXCEPT ![k] = "open"]
          /\ UNCHANGED scan_status
     ELSE /\ scan_status' = "failed"
          /\ scan_pc' = [scan_pc EXCEPT ![k] = "failed"]
          /\ UNCHANGED scan_results
  /\ UNCHANGED <<scan_dump, scan_file, scan_answer>>

\* from the file being open to the await of f.write (lines 219-220): mode
\* 'w' has emptied the file and json.dumps reads the global _scan_results
ScanFileOpened(k, ok) ==
  /\ scan_pc[k] = "open"
  /\ IF ok
     THEN /\ scan_dump' = [scan_dump EXCEPT ![k] = scan_results]
          /\ scan_file' = NoResults
          /\ scan_pc' = [scan_pc EXCEPT ![k] = "write"]
          /\ UNCHANGED scan_status
     ELSE /\ scan_status' = "failed"
          /\ scan_pc' = [scan_pc EXCEPT ![k] = "failed"]
          /\ UNCHANGED <<scan_dump, scan_file>>
  /\ UNCHANGED <<scan_results, scan_answer>>

\* from the end of the write to the end of the task (lines 220-224)
ScanFileWritten(k, ok) ==
  /\ scan_pc[k] = "write"
  /\ IF ok
     THEN /\ scan_file' = scan_dump[k]
          /\ scan_status' = "completed"
          /\ scan_pc' = [scan_pc EXCEPT ![k] = "completed"]
     ELSE /\ scan_status' = "failed"
          /\ scan_pc' = [scan_pc EXCEPT ![k] = "failed"]
          /\ UNCHANGED scan_file
  /\ UNCHANGED <<scan_results, scan_dump, scan_answer>>

\* GET /status, lines 236-243
GetScanStatus ==
  /\ scan_answer' = [status |-> scan_status,
                     has_results |-> scan_results # NoResults,
                     last_scan |-> scan_results]
  /\ UNCHANGED <<scan_status, scan_results, scan_pc, scan_dump, scan_file>>

NextScan ==
  \/ RunScan /\ UNCHANGED restOfScan
  \/ /\ \E k \in Scans, ok \in BOOLEAN : ScanLogicDone(k, ok)
     /\ UNCHANGED restOfScan
  \/ /\ \E k \in Scans, ok \in BOOLEAN : ScanFileOpened(k, ok)
     /\ UNCHANGED restOfScan
  \/ /\ \E k \in Scans, ok \in BOOLEAN : ScanFileWritten(k, ok)
     /\ UNCHANGED restOfScan
  \/ GetScanStatus /\ UNCHANGED restOfScan

SpecScan == Init /\ [][NextScan]_vars

(* ============================== claims ================================= *)
\* a fetch_prices_fast call has returned through the merge-and-save path
Merged == pc = "idle" /\ ret.kind = "merged"
\* a fetch_prices_fast call has ended, by a return or by an exception
Ended == pc = "idle" /\ ret.kind # "none"

\* C1 (as claimed): after a cycle, every (ticker, date) cell that is non-null
\* both in the cached table and in the delta table of that cycle holds the
\* delta value in the merged table, for close and for open.
C1_DeltaOverridesCache ==
  Merged =>
    \A t \in Tickers, d \in Dates :
      /\ (cached_close.val[t][d] # NaN /\ delta_close.val[t][d] # NaN)
           => final_close.val[t][d] = delta_close.val[t][d]
      /\ (cached_open.val[t][d] # NaN /\ delta_open.val[t][d] # NaN)
           => final_open.val[t][d] = delta_open.val[t][d]

\* a requested ticker the cycle holds data for: cached in both tables, or
\* fetched by a delta call or a full call
C2_Held(t) ==
  \/ InBoth(cached_close, cached_open, t)
  \/ (t \in delta_close.cols /\ t \in delta_open.cols)
  \/ (~IsEmpty(new_close) /\ t \in new_close.cols /\ t \in new_open.cols)

\* C2 (as claimed): when the provider call of some ticker failed after all
\* retries, the call still ends without raising, and every other requested
\* ticker that was fetched or cached is in both returned tables.
C2_FailureIsolated ==
  (Ended /\ failed # {}) =>
    /\ ret.kind # "raised"
    /\ \A t \in Range(tickers) \ failed :
         C2_Held(t) => (t \in ret.close.cols /\ t \in ret.open.cols)

\* the call before left every requested ticker in both cache files with a
\* value for the current day, and this call read the files without error
C3_PrevComplete ==
  /\ prev.ok
  /\ pre.close.exists /\ pre.open.exists /\ read_outcome = "ok"
  /\ \A t \in Range(tickers) :
       /\ InBoth(pre.close.df, pre.open.df, t)
       /\ DayOf(now) \in NonNullDates(pre.close.df, t)

\* C3 (as claimed): a call that repeats the one before it (same tickers,
\* use_cache on both, same clock value), when that one cached every requested
\* ticker up to today, returns the same two tables and makes no provider call.
C3_Idempotent ==
  (Ended /\ C3_PrevComplete) =>
    /\ ret.kind # "raised"
    /\ ret.close = prev.close /\ ret.open = prev.open
    /\ tiingo_calls = <<>> /\ yf_calls = <<>>

\* file `after` keeps every ticker column and every non-null cell of `before`
C4_Keeps(before, after) ==
  before.exists =>
    /\ after.exists
    /\ before.df.cols \subseteq after.df.cols
    /\ \A t \in before.df.cols, d \in Dates :
         before.df.val[t][d] # NaN => after.df.val[t][d] = before.df.val[t][d]

C4_CacheRead ==
  pre.close.exists /\ pre.open.exists /\ read_outcome = "ok"

C5_OpenCloseAligned ==
  Merged => final_close.cols = final_open.cols

\* the running (cached plus delta) table of the merge
C6_Running(cached, dlt) == ApplyDelta(cached, dlt, delta_close)

\* C6 (as claimed): a ticker fetched as full in a cycle (its full-fetch
\* column has a value), whose column already exists in the running table, has
\* the full-fetch column as its merged column, for close and for open.
C6_FullReplacesExisting ==
  Merged =>
    \A t \in Range(tickers_to_fetch_full) :
      /\ (NonNullDates(new_close, t) # {}
            /\ t \in C6_Running(cached_close, delta_close).cols)
           => \A d \in Dates : final_close.val[t][d] = new_close.val[t][d]
      /\ (~IsEmpty(new_close) /\ NonNullDates(new_open, t) # {}
            /\ t \in C6_Running(cached_open, delta_open).cols)
           => \A d \in Dates : final_open.val[t][d] = new_open.val[t][d]

\* file `after` holds a superset of the columns and dates of `before`
C7_Superset(before, after) ==
  before.exists =>
    /\ after.exists
    /\ before.df.cols \subseteq after.df.cols
    /\ before.df.idx \subseteq after.df.idx

\* C7 (as claimed): over any sequence of cycles, with use_cache true or false,
\* no cache file is deleted and every overwrite of a file writes a superset of
\* the ticker columns and dates it held before.
C7_MonotoneCache ==
  Ended =>
    (C7_Superset(pre.close, disk.close) /\ C7_Superset(pre.open, disk.open))

\* a retry run is under way or over
RetryRan == rpc \in {"call", "done"}
\* the run made two attempts that raised a transient error and then one that
\* returned a value
TwoTransientThenValue ==
  /\ rpc = "done"
  /\ errors = <<"transient", "transient">>
  /\ outcome \in {"value", "success"}

\* C8 (as claimed): in every provider call path the sleep before retry k is
\* min(baseDelay * 2^k, maxDelay) (fetch_ticker_history has no maxDelay: no
\* cap), there are at most maxRetries retries, and two transient errors
\* followed by a success give exactly the sleeps baseDelay and 2*baseDelay
\* (read for a maxDelay of at least 2*baseDelay).
C8_BackoffEveryPath ==
  RetryRan =>
    /\ \A k \in 1..Len(sleeps) :
         sleeps[k] = IF rkind = "decorator"
                     THEN Min(base_delay * Pow2(k - 1), max_delay)
                     ELSE base_delay * Pow2(k - 1)
    /\ Len(sleeps) <= max_retries
    /\ (TwoTransientThenValue
          /\ (rkind = "decorator" => 2 * base_delay <= max_delay))
         => sleeps = <<base_delay, 2 * base_delay>>

\* C8 (amended): a call through retry_api_call sleeps
\* min(base_delay * 2^k, max_delay) before retry k, retries a transient error
\* until max_retries retries are spent, and after two transient errors and a
\* success has slept exactly min(base_delay, max_delay) and
\* min(2*base_delay, max_delay) (base_delay and 2*base_delay when
\* 2*base_delay <= max_delay, as with the defaults 1.0 and 30.0);
\* fetch_ticker_history sleeps RETRY_DELAY * (k+1) before retry k, uncapped,
\* and retries at most max_retries - 1 times.
C8_BackoffSchedule ==
  RetryRan =>
    /\ rkind = "decorator" =>
         /\ \A k \in 1..Len(sleeps) :
              sleeps[k] = Min(base_delay * Pow2(k - 1), max_delay)
         /\ Len(sleeps) <= max_retries
         /\ Len(sleeps) = attempt
         /\ (rpc = "done" /\ outcome = "raised" /\ errors # <<>>
               /\ errors[Len(errors)] = "transient")
              => (attempts = max_retries + 1 /\ Len(sleeps) = max_retries)
         /\ TwoTransientThenValue =>
              /\ sleeps = <<Min(base_delay, max_delay),
                            Min(2 * base_delay, max_delay)>>
              /\ (2 * base_delay <= max_delay
                    => sleeps = <<base_delay, 2 * base_delay>>)
              /\ attempts = 3
    /\ rkind = "history" =>
         /\ \A k \in 1..Len(sleeps) : sleeps[k] = 3 * k
         /\ (max_retries >= 1 => Len(sleeps) <= max_retries - 1)
         /\ attempts <= max_retries
         /\ TwoTransientThenValue => sleeps = <<3, 6>>

\* C8 witness: the decorator met two transient errors, slept 1 and 2 and
\* returned the value of the third attempt
C8_Witness ==
  /\ rkind = "decorator" /\ TwoTransientThenValue
  /\ base_delay = 1 /\ sleeps = <<1, 2>> /\ attempts = 3

\* the first error the provider raised was a permanent one
FirstErrorPermanent == errors # <<>> /\ errors[1] = "permanent"

\* C9 (as claimed): in every provider call path a permanent error on the
\* first attempt ends the call at once: one attempt, no sleep.
C9_PermanentEveryPath ==
  (RetryRan /\ FirstErrorPermanent) =>
    (rpc = "done" /\ attempts = 1 /\ sleeps = <<>>)

\* C9 (amended): through retry_api_call (every provider call of
\* FastDataLoader) a permanent error on the first attempt is re-raised at
\* once, after one attempt and no sleep; fetch_ticker_history retries it like
\* any other exception, sleeping RETRY_DELAY first, while max_retries allows.
C9_PermanentNotRetried ==
  (RetryRan /\ FirstErrorPermanent) =>
    /\ rkind = "decorator" =>
         (rpc = "done" /\ outcome = "raised" /\ attempts = 1 /\ sleeps = <<>>)
    /\ rkind = "history" =>
         IF max_retries >= 2
         THEN Len(sleeps) >= 1 /\ sleeps[1] = 3 /\ (rpc = "done" => attempts >= 2)
         ELSE rpc = "done" /\ outcome = "failed" /\ sleeps = <<>>

\* C9 witness: the decorator, allowed retries, met a permanent error first
C9_Witness ==
  /\ rkind = "decorator" /\ rpc = "done" /\ max_retries >= 1
  /\ errors = <<"permanent">> /\ attempts = 1

\* a full-fetch set went to the primary and the fallback step is over
AfterFallback == pc \in {"merge", "idle"} /\ tiingo_calls # <<>>
\* the full tickers the primary's answer did not carry
NotReturned == Range(tickers_to_fetch_full) \ tiingo_cols
\* the calls to the secondary made for full tickers
FullCalls == {i \in DOMAIN yf_calls : yf_calls[i].mode = "full"}

C11_CellValid(v) == v = NaN \/ v > 0

\* C11 (as claimed): no row that fails the sanity validation is in a table a
\* cycle returned or in a persisted cache file.
C11_NoInvalidRows ==
  Ended =>
    \A t \in Tickers, d \in Dates :
      /\ C11_CellValid(ret.close.val[t][d])
      /\ C11_CellValid(ret.open.val[t][d])
      /\ C11_CellValid(disk.close.df.val[t][d])
      /\ C11_CellValid(disk.open.df.val[t][d])

\* a value the provider gave for a field (neither None nor nan)
C12_Present(v) == v # PyNone /\ v # FloatNaN

\* the rule of the claim, on the provider's row
C12_Rule(row) ==
  /\ \A f \in RequiredFields : C12_Present(row[f])
  /\ row.high >= row.low
  /\ row.low <= row.open /\ row.open <= row.high
  /\ row.low <= row.close /\ row.close <= row.high
  /\ row.open > 0 /\ row.high > 0 /\ row.low > 0 /\ row.close > 0

\* C12 (as claimed): a row fetch_ticker_history took from the provider's frame
\* is accepted exactly when all five fields are present, high >= low, open
\* and close lie in [low, high] and the four prices are positive.
C12_ValidationRule ==
  vpc = "done" => (vverdict = "accepted" <=> C12_Rule(vrow))

\* C13 (as claimed): any two provider calls for one ticker through one
\* fetcher start at least MIN_REQUEST_INTERVAL apart, whatever the
\* interleaving of the worker threads, retry attempts included.
C13_PerTickerSpacing ==
  \A i \in DOMAIN calls, j \in DOMAIN calls :
    (i < j /\ calls[i].ticker = calls[j].ticker)
      => calls[j].at - calls[i].at >= MIN_REQUEST_INTERVAL

\* ticker t has no column with a value in the cache the cycle loaded
C14_NotCached(t) ==
  \/ IsEmpty(cached_close) \/ IsEmpty(cached_open)
  \/ ~InBoth(cached_close, cached_open, t)
  \/ NonNullDates(cached_close, t) = {}

\* C14 (as claimed): the plan puts every requested ticker in exactly one of
\* full, up-to-date and delta: full when it is not cached or its cached
\* column has no value; up-to-date (no fetch) when its last cached date d is
\* today or later; delta with sinceDate = d otherwise. Planning calls no
\* provider.
C14_DeltaPlanning ==
  pc = "planned" =>
    /\ tiingo_calls = <<>> /\ yf_calls = <<>>
    /\ \A t \in Range(tickers) :
         LET full == t \in Range(tickers_to_fetch_full)
             delta == t \in DOMAIN tickers_to_fetch_delta
         IN /\ ~(full /\ delta)
            /\ C14_NotCached(t) => (full /\ ~delta)
            /\ ~C14_NotCached(t) =>
                 LET d == SetMax(NonNullDates(cached_close, t))
                 IN IF d >= DayOf(now)
                    THEN ~full /\ ~delta
                    ELSE ~full /\ delta /\ tickers_to_fetch_delta[t] = d

\* the cycle called a provider, and every call it made failed after all retries
C15_Outage ==
  /\ (tiingo_calls # <<>> \/ yf_calls # <<>>)
  /\ tiingo_calls # <<>> => tiingo_failed
  /\ \A i \in DOMAIN yf_calls : Range(yf_calls[i].tickers) \subseteq failed

\* the cycle loaded a cache with data
C15_Warm == ~IsEmpty(cached_close) /\ ~IsEmpty(cached_open)

\* C15 (as claimed): a cycle in which every provider call fails still returns
\* without raising: the cached data of the requested tickers when the cache
\* is warm, empty tables when it is cold.
C15_TotalOutage ==
  (Ended /\ C15_Outage) =>
    /\ ret.kind # "raised"
    /\ IF C15_Warm
       THEN LET have == {t \in Range(tickers) : InBoth(cached_close, cached_open, t)}
            IN /\ ret.close = Select(cached_close, have)
               /\ ret.open = Select(cached_open, have)
       ELSE IsEmpty(ret.close) /\ IsEmpty(ret.open)

\* the last cycle reached the save and a write of it raised
C16_WriteFailed ==
  pc = "idle" /\ write_outcome \in {"close_raises", "open_raises"}

\* the requested tickers that are in both merged tables
C16_Have ==
  {t \in Range(tickers) : t \in final_close.cols /\ t \in final_open.cols}

\* C16: when the write of either cache file fails at the end of a cycle,
\* fetch_prices_fast does not raise and returns the merged in-memory tables
\* restricted to the requested tickers, as it does when the write succeeds.
C16_BestEffortSave ==
  (pc = "idle" /\ write_outcome # "none") =>
    /\ ret.kind = "merged"
    /\ ret.close = Select(final_close, C16_Have)
    /\ ret.open = Select(final_open, C16_Have)

\* C16 witness: the write of the open file raised, the file is not the merged
\* open table, and the call returned the merged data of a requested ticker
C16_Witness ==
  /\ C16_WriteFailed /\ write_outcome = "open_raises"
  /\ disk.open.df # final_open
  /\ ret.kind = "merged" /\ C16_Have # {}
  /\ \E t \in C16_Have : NonNullDates(ret.open, t) # {}

\* the running or last cycle wanted the cache and found a file missing
C17_FileMissing == use_cache /\ (~pre.close.exists \/ ~pre.open.exists)

\* all requested tickers are planned full, none delta
C17_AllFull ==
  tickers_to_fetch_full = tickers /\ DOMAIN tickers_to_fetch_delta = {}

\* C17: loading the cache never fails the cycle. With a cache file missing
\* the cycle starts from an empty snapshot and plans every requested ticker
\* full; when the read of a file raises, that file counts as a cache miss
\* (every requested ticker is planned full) and the cycle goes on to fetch,
\* merge and return: it can only end by a return, or by the error of the
\* full-fetch call to the secondary provider.
C17_NonFatalLoad ==
  cycles > 0 =>
    /\ C17_FileMissing =>
         (cached_close = EmptyDF /\ cached_open = EmptyDF /\ C17_AllFull)
    /\ read_outcome = "close_raises" => (cached_close = EmptyDF /\ C17_AllFull)
    /\ read_outcome = "open_raises" => (cached_open = EmptyDF /\ C17_AllFull)
    /\ (Ended /\ (C17_FileMissing \/ read_outcome # "ok")) =>
         \/ ret.kind \in {"merged", "cacheonly"}
         \/ ret.kind = "raised" /\ FullCalls # {}

\* C17 witness: the read of the open file raised although it held the
\* requested ticker, which was fetched full, merged and returned
C17_Witness ==
  /\ Merged /\ read_outcome = "open_raises"
  /\ \E t \in Range(tickers) :
       /\ NonNullDates(pre.open.df, t) # {}
       /\ t \in Range(tickers_to_fetch_full)
       /\ NonNullDates(ret.close, t) # {}

\* both processes have finished a fetch cycle and none is running
C18_BothDone == \A p \in Procs : spc[p] = "done"

\* C18 (as claimed): when two processes ran fetch cycles on one cache
\* directory concurrently and both have finished, the two files are the pair
\* written by the process whose save completed last.
C18_LastSaveWins ==
  C18_BothDone =>
    /\ sdisk.close.df = sfinal[slast].close
    /\ sdisk.open.df = sfinal[slast].open

\* the call returned tables (it did not raise)
Returned == Ended /\ ret.kind # "raised"

\* no label occurs twice in a list of column labels
C19_NoRepeat(labels) ==
  \A i \in DOMAIN labels, j \in DOMAIN labels :
    labels[i] = labels[j] => i = j

\* C19 (as claimed): each ticker has exactly one column in the two returned
\* tables, on every return path, also for a request that names a ticker twice.
C19_NoDuplicateColumns ==
  Returned => (C19_NoRepeat(ret.ccols) /\ C19_NoRepeat(ret.ocols))

\* the two tables the return is taken from: the merged ones after a merge,
\* the cached ones on the all-up-to-date and the cache-only returns
C20_Source ==
  IF ret.kind = "merged"
  THEN [close |-> final_close, open |-> final_open]
  ELSE [close |-> cached_close, open |-> cached_open]

\* the requested tickers that have a column in both of them
C20_Expected ==
  {t \in Range(tickers) :
     t \in C20_Source.close.cols /\ t \in C20_Source.open.cols}

\* C20: on every return path the returned open and close tables have the
\* same ticker columns, exactly the requested tickers that are in both
\* merged tables, each with the values of its merged column.
C20_OutputRestriction ==
  Returned =>
    /\ ret.close.cols = C20_Expected /\ ret.open.cols = C20_Expected
    /\ Range(ret.ccols) = C20_Expected /\ Range(ret.ocols) = C20_Expected
    /\ \A t \in C20_Expected, d \in Dates :
         /\ ret.close.val[t][d] = C20_Source.close.val[t][d]
         /\ ret.open.val[t][d] = C20_Source.open.val[t][d]

\* C20 witness: A and B were requested, the merged close table has both and
\* the merged open table has B only, and the call returned B alone
C20_Witness ==
  /\ Merged /\ tickers = <<"A", "B">>
  /\ final_close.cols = {"A", "B"} /\ final_open.cols = {"B"}
  /\ ret.close.cols = {"B"} /\ ret.open.cols = {"B"}

\* the first provider call of the cycle asks for exactly the tickers tk over
\* the complete history (from StartDate)
C21_FirstCallFull(tk) ==
  \/ tiingo_calls # <<>> /\ tiingo_calls[1] = tk
  \/ /\ tiingo_calls = <<>> /\ yf_calls # <<>>
     /\ yf_calls[1].mode = "full" /\ yf_calls[1].tickers = tk
     /\ yf_calls[1].start = StartDate

\* C21: in a call with use_cache=false every requested ticker is planned as
\* full whatever the cache files hold - none as delta, and the call does not
\* take the all-up-to-date return - and by the end of the call a provider was
\* called for the whole request over the complete history.
C21_ForcedRefetch ==
  (cycles > 0 /\ ~use_cache) =>
    /\ cached_close = EmptyDF /\ cached_open = EmptyDF
    /\ tickers_to_fetch_full = tickers
    /\ tickers_to_fetch_delta = NoDelta
    /\ ret.kind # "uptodate"
    /\ \A i \in DOMAIN yf_calls : yf_calls[i].mode = "full"
    /\ Ended => C21_FirstCallFull(tickers)

\* C21 witness: both cache files held the requested ticker up to today, and
\* the call with use_cache=false fetched it full and returned it
C21_Witness ==
  /\ Merged /\ ~use_cache
  /\ pre.close.exists /\ pre.open.exists
  /\ \E t \in Range(tickers) :
       /\ InBoth(pre.close.df, pre.open.df, t)
       /\ DayOf(now) \in NonNullDates(pre.close.df, t)
       /\ t \in Range(tickers_to_fetch_full)
       /\ NonNullDates(ret.close, t) # {}

\* the step is the answer to a GET /utils/generate-id
C22_Generated == \E c \in Clients, prefix \in Prefixes : GenerateTradeId(c, prefix)

\* C22 (as claimed): the id generate_trade_id returns starts with the given
\* prefix and differs from the trade_id of every trade stored at that time,
\* after any creations under generated ids and any deletions.
C22_UniqueGeneratedId ==
  [][C22_Generated =>
       (response'.tid.prefix \in Prefixes
        /\ response'.tid \notin StoredTradeIds(tbl))]_vars

\* the step answers not-found and changes no row of the table
C23_NotFoundAnswer == response'.code = 404 /\ tbl' = tbl

\* C23: a get, a PATCH update and a delete of a primary key that is not
\* stored each answer 404 and leave the stored trades and their fields as
\* they were.
C23_NotFoundHandling ==
  [][\A pk \in PkInputs :
       pk \notin Stored(tbl) =>
         /\ GetTrade(pk) => C23_NotFoundAnswer
         /\ (\E p \in Patches : UpdateTrade(pk, p)) => C23_NotFoundAnswer
         /\ DeleteTrade(pk) => C23_NotFoundAnswer]_vars

\* C23 witness: a PATCH that sets fields was answered 404 while the table
\* held a trade
C23_Witness ==
  /\ response.op = "update" /\ response.code = 404
  /\ Stored(tbl) # {}

\* the completion orders of n tasks
C24_Orders(n) ==
  {ord \in [1..n -> 1..n] : \A i, j \in 1..n : ord[i] = ord[j] => i = j}

RECURSIVE C24_Collect(_, _)
\* the results dict after the futures ended as they did and were yielded in
\* the order ord, first k of them
C24_Collect(ord, k) ==
  IF k = 0 THEN [t \in Tickers |-> NoOutcome]
  ELSE [C24_Collect(ord, k - 1) EXCEPT
          ![future_to_ticker[ord[k]]] = Recorded(futures[ord[k]])]

\* C24 (as claimed): fetch_multiple returns one outcome for every distinct
\* requested ticker and none for another, also for tickers whose worker
\* raised, and the mapping is what every completion order of the tasks
\* would have given.
C24_CompleteOrderIndependent ==
  mpc = "returned" =>
    /\ \A t \in Tickers :
         (results[t] # NoOutcome) <=> (t \in Range(future_to_ticker))
    /\ completed = Len(future_to_ticker)
    /\ \A ord \in C24_Orders(Len(futures)) :
         C24_Collect(ord, Len(futures)) = results

\* C25 (as claimed): every incremental fetch of a ticker with a last known
\* date asks the provider for the window that starts at that date, inclusive,
\* and ends today, so that the last known date is fetched again.
C25_DeltaWindow ==
  (gpc = "fetched" /\ gmode = "daily" /\ gcall.last_date # PyNone) =>
    (gcall.start_date = gcall.last_date /\ gcall.end_date = gcall.today)

\* the provider gave rows and the validation rejected some or all of them
C26_RowsRejected == gframe.kind = "frame" /\ gframe.rejected > 0

\* C26 (as claimed): a ticker whose rows were rejected by the validation has
\* the rejected rows dropped, is reported as succeeded by
\* fetch_ticker_history and, once counted, is counted as succeeded - also
\* when every fetched row was rejected.
C26_RejectionNeverFails ==
  C26_RowsRejected =>
    /\ gresult.success /\ gresult.error = "none"
    /\ gresult.prices = gframe.rows - gframe.rejected
    /\ (gpc = "idle" => gcounted = "succeeded")

\* a close request for the key pk, with any exit price and date
C28_CloseStep(pk) ==
  \E price \in 1..MaxExitPrice, date \in {PyNone} \cup (1..MaxExitDay) :
    CloseTrade(pk, price, date)

\* C28 (as claimed): closing is one-way and happens at most once. A close of
\* an OPEN trade leaves it CLOSED with an exit price and an exit date; a
\* close of a missing trade or of a trade that is not OPEN answers 404 and
\* changes no field; and no step of the API takes a CLOSED trade that stays
\* stored back to OPEN or changes its exit price.
C28_ClosingOneWay ==
  [][\A pk \in 1..MaxTrades :
       /\ (C28_CloseStep(pk) /\ tbl[pk].status = "OPEN") =>
            /\ tbl'[pk].status = "CLOSED"
            /\ tbl'[pk].exit_price \in 1..MaxExitPrice
            /\ tbl'[pk].exit_date # PyNone
       /\ (C28_CloseStep(pk) /\ tbl[pk].status # "OPEN") =>
            /\ response'.code = 404
            /\ tbl' = tbl
       /\ (tbl[pk].status = "CLOSED" /\ tbl'[pk].status # "absent") =>
            /\ tbl'[pk].status # "OPEN"
            /\ tbl'[pk].exit_price = tbl[pk].exit_price]_vars

\* C29 (as claimed): GET /status reports 'running' whenever a scan task that
\* /run started has not finished, so never 'completed' or 'failed' while
\* another scan is in flight; and once every started scan has finished, the
\* last one with success, the stored results are those of the scan that was
\* started last.
C29_StatusTracksScans ==
  /\ InFlight # {} => scan_status = "running"
  /\ (/\ Started # {} /\ InFlight = {}
      /\ scan_pc[Cardinality(Started)] = "completed")
       => scan_results = Cardinality(Started)

\* a fetch_ticker_history call has returned
C30_Returned == rkind = "history" /\ rpc = "done"

\* C30 (as claimed): for every max_retries >= 0 and whatever the provider
\* does, fetch_ticker_history makes at most max_retries provider calls and
\* at most max_retries - 1 sleeps (none when max_retries is 0), ends by
\* returning a triple (no exception of the provider leaves it), and in the
\* triple success = true implies error None, success = false implies no
\* prices and a non-empty message.
C30_BoundedNonRaising ==
  rkind = "history" =>
    /\ attempts <= max_retries
    /\ Len(sleeps) <= (IF max_retries = 0 THEN 0 ELSE max_retries - 1)
    /\ outcome # "raised"
    /\ C30_Returned =>
         /\ returned.success => returned.error = "none"
         /\ ~returned.success =>
              /\ returned.prices = 0
              /\ returned.error \notin {"none", ""}
=============================================================================
